---------------------------- MODULE Spec2Model ----------------------------
(***************************************************************************)
(* A model of the supervisory layer of viva-engineering/database: the      *)
(* per-connection side tables (mysql.ts), the transaction API and the      *)
(* connection getters of DatabasePool (pool.ts), and the descriptor-driven *)
(* query execution with its error handler (query.ts, select-query.ts).     *)
(*                                                                         *)
(* The mysql pool and connection are external collaborators.  They are     *)
(* modelled at their boundary: a connection is uncreated, idle in its      *)
(* pool, acquired or destroyed; each connection runs the statements        *)
(* submitted to it one after the other (stmtQueue) and calls the callback  *)
(* of the oldest one when it completes.                                    *)
(*                                                                         *)
(* The model follows one Query.execute operation (the op* variables) next  *)
(* to any number of transaction API calls, acquisitions and releases.  The *)
(* operation is started by a caller that holds a connection, or by one     *)
(* call of DatabasePool.query, which takes and releases the connection     *)
(* itself.  DatabasePool.healthcheck and DatabasePool.destroy are followed *)
(* call by call, and the hold timeouts set by onAcquire as time passes.    *)
(*                                                                         *)
(* The repository also holds index.ts, the DatabasePool whose runQuery     *)
(* counts its retries in a hidden fourth argument.  One runQuery operation *)
(* is followed in the variable `hidden`, next to the Query.execute         *)
(* operation, so that the two retry paths can be compared.                 *)
(***************************************************************************)
EXTENDS Integers, Sequences, FiniteSets, TLC

\* ------------------------------------------------------------------ bounds
\* Largest maxRetries of a query descriptor.
MaxM == 2
\* Statements one Query.execute operation may submit before the model stops
\* following its retry timer.
MaxSubmissions == 4
\* Statements in flight on one connection.
MaxQueue == 2
\* Pending hold timeouts of one connection the model keeps track of.
MaxTimeouts == 2
\* The time that passes in one step of the clock, in ms.
TickMs == 20000
\* Largest maxRetries of the descriptor run side by side with runQuery.
MaxComparedRetries == 4

\* ------------------------------------------------------------- vocabulary
\* The connections: one of the master pool, one of the replica pool.  The
\* side tables are keyed by connection and no handler reads the entry of
\* another connection.
Conns == {1, 2}

\* makePool('master', ...) and makePool('replica', ...): the pool a
\* connection is created by.
PoolOf(c) == IF c % 2 = 1 THEN "master" ELSE "replica"

\* type Role: the two pools of a DatabasePool.
Roles == {"master", "replica"}

\* The DatabasePool instance handed to makePool as dbPool.
DbPool == "dbPool"

\* WeakMap.get of a key that is not in the map.
Absent == "absent"

\* TransactionType; None is the absence of an entry in `transactions`.
None == "none"
ReadOnly == "read only"
ReadWrite == "read write"
TransactionType == {ReadOnly, ReadWrite}

\* The optional `retries` argument of Query.execute when it is left out.
Undefined == -1
\* The result of arithmetic on undefined.
NaN == -1

\* Driver errors: the fatal flag is set by the driver, the code is what the
\* query's isRetryable callback looks at.
Errors == [fatal : BOOLEAN, code : {"ER_LOCK_DEADLOCK", "ER_DUP_ENTRY"}]
NoError == [fatal |-> FALSE, code |-> "null"]

\* QueryIsRetryableCallback of the query descriptor under execution.
isRetryable(error) == error.code = "ER_LOCK_DEADLOCK"

\* The three branches of onError, by the order of its tests.
Classify(error) ==
    IF error = NoError THEN "ok"
    ELSE IF error.fatal THEN "fatal"
    ELSE IF isRetryable(error) THEN "retryable"
    ELSE "terminal"

Last(s) == s[Len(s)]

VARIABLES
    connState,        \* pool's view: "uncreated", "idle", "acquired", "destroyed",
                      \* "closed" (taken out by pool.end)
    callerHas,        \* the caller was handed the connection by a resolved acquisition
    connectionRoles,  \* WeakMap connection -> Role
    connectionPools,  \* WeakMap connection -> DatabasePool
    transactions,     \* WeakMap connection -> TransactionType
    holdTimers,       \* WeakMap connection -> Timeout (TRUE: an armed timer is stored)
    stmtQueue,        \* statements in flight on each connection, oldest first
    event,            \* what the last step reported: a transaction API outcome,
                      \* the diagnostics and forced rollbacks of onRelease
    opConn,           \* connection of the Query.execute operation (0: not started)
    maxRetries,       \* query.maxRetries
    retries,          \* the retries argument of execute
    submissions,      \* statements submitted by the operation
    outcomes,         \* classification of each completed attempt, in order
    delays,           \* backoff of each scheduled retry timer, in order
    retryTimer,       \* a retry setTimeout is pending
    callerPromise,    \* promise returned by the caller's Query.execute call
    callerValue,      \* the attempt whose result resolved callerPromise
    onErrorPromise,   \* promise created by the last onError call
    queryKind,        \* class of the query object handed to DatabasePool.query
    queryPhase,       \* position of that call of DatabasePool.query
    probe,            \* per pool: the healthcheck of that pool and its result
    healthPromise,    \* promise of DatabasePool.healthcheck
    poolEnd,          \* per pool: pool.end not called ("open"), called, called back
    destroyPromise,   \* promise of DatabasePool.destroy
    destroyError,     \* what destroyPromise was rejected with
    timeouts,         \* per connection: the pending onHeldTooLong timeouts
    heldMs,           \* per connection: time since it was last handed out
    warnings,         \* per connection: held-too-long warnings since then
    hidden,           \* the runQuery operation of the DatabasePool of index.ts
    hasIsRetryable    \* the query's config gave an isRetryable callback

registry == <<connectionRoles, connectionPools, transactions, holdTimers>>
opVars == <<opConn, maxRetries, retries, submissions, outcomes, delays,
            retryTimer, callerPromise, callerValue, onErrorPromise>>
queryVars == <<queryKind, queryPhase>>
\* The variables of DatabasePool's composite operations.
clockVars == <<timeouts, heldMs, warnings>>
healthVars == <<probe, healthPromise>>
closeVars == <<poolEnd, destroyPromise, destroyError>>
poolOpVars == <<queryKind, queryPhase, probe, healthPromise,
                poolEnd, destroyPromise, destroyError>>
vars == <<connState, callerHas, connectionRoles, connectionPools, transactions,
          holdTimers, stmtQueue, event,
          opConn, maxRetries, retries, submissions, outcomes, delays,
          retryTimer, callerPromise, callerValue, onErrorPromise,
          queryKind, queryPhase,
          probe, healthPromise, poolEnd, destroyPromise, destroyError,
          timeouts, heldMs, warnings, hidden, hasIsRetryable>>

Stmt(kind, tag) == [kind |-> kind, tag |-> tag]

\* setTimeout(onHeldTooLong, 60000)
HeldTooLongMs == 60000

\* A pending timeout: the time since it was set, and whether its handle is
\* the one stored in holdTimers.
Timeout(age, stored) == [age |-> age, stored |-> stored]

\* The healthcheck of one pool: where it is ("unstarted", "acquiring",
\* "querying", "resolved", "rejected") and the HealthcheckResult it
\* returned.
Probe(phase, available, info) ==
    [phase |-> phase, available |-> available, info |-> info]
NoProbe == Probe("unstarted", FALSE, "none")

\* A call of the transaction API (at = "call") or the callback of its
\* statement (at = "callback"), with what it did to the promise.  leakErrors
\* counts the error-level "released ... still had an open transaction"
\* diagnostics the step logged, forcedRollbacks the rollback statements its
\* onRelease submitted.  acquireSignals and releaseSignals count the pool's
\* 'acquire' and 'release' signals of the step, logs the silly-level entries
\* carrying threadId and dbRole that its handlers wrote.  follows names,
\* for a run of onRelease, the call whose promise the step before resolved
\* on the same connection.
Event(op, at, c, result, error) ==
    [op |-> op, at |-> at, conn |-> c, result |-> result, error |-> error,
     leakErrors |-> 0, forcedRollbacks |-> 0,
     acquireSignals |-> 0, releaseSignals |-> 0, logs |-> 0, follows |-> "none"]
NoEvent == Event("none", "none", 0, "none", "none")

\* One DatabasePool.runQuery operation of index.ts: the connection it was
\* called with, the hidden `retries` argument of the call whose statement
\* was submitted last, the connection each statement was submitted on, the
\* classification of each completed attempt, the backoff of each retry
\* timer, whether a statement is in flight and a timer pending, and the
\* promise returned to the caller with the attempt that settled it.
RunQuery(c, r, on, outs, ds, inFlight, timer, promise, value) ==
    [connection |-> c, retries |-> r, submittedOn |-> on, outcomes |-> outs,
     delays |-> ds, inFlight |-> inFlight, timer |-> timer,
     promise |-> promise, value |-> value,
     holdTimer |-> c # 0, destroyed |-> FALSE]
NoRunQuery == RunQuery(0, Undefined, <<>>, <<>>, <<>>, FALSE, FALSE, "none", 0)

Init ==
    /\ connState = [c \in Conns |-> "uncreated"]
    /\ callerHas = [c \in Conns |-> FALSE]
    /\ connectionRoles = [c \in Conns |-> Absent]
    /\ connectionPools = [c \in Conns |-> Absent]
    /\ transactions = [c \in Conns |-> None]
    /\ holdTimers = [c \in Conns |-> FALSE]
    /\ stmtQueue = [c \in Conns |-> <<>>]
    /\ event = NoEvent
    /\ opConn = 0
    /\ maxRetries = 0
    /\ retries = Undefined
    /\ submissions = 0
    /\ outcomes = <<>>
    /\ delays = <<>>
    /\ retryTimer = FALSE
    /\ callerPromise = "none"
    /\ callerValue = 0
    /\ onErrorPromise = "none"
    /\ queryKind = "none"
    /\ queryPhase = "none"
    /\ probe = [role \in Roles |-> NoProbe]
    /\ healthPromise = "none"
    /\ poolEnd = [role \in Roles |-> "open"]
    /\ destroyPromise = "none"
    /\ destroyError = "none"
    /\ timeouts = [c \in Conns |-> <<>>]
    /\ heldMs = [c \in Conns |-> 0]
    /\ warnings = [c \in Conns |-> 0]
    /\ hidden = NoRunQuery
    /\ hasIsRetryable = TRUE



\* ------------------------------------------------- registry handlers (mysql.ts)

\* onConnection of the master pool installed on every pool.
onConnectionAsMaster(c) ==
    /\ connectionRoles' = [connectionRoles EXCEPT ![c] = "master"]
    /\ connectionPools' = [connectionPools EXCEPT ![c] = DbPool]

\* onConnection: the pool's 'connection' signal registers role and pool.
onConnection(c) ==
    /\ connectionRoles' = [connectionRoles EXCEPT ![c] = PoolOf(c)]
    /\ connectionPools' = [connectionPools EXCEPT ![c] = DbPool]

\* holdTimers.set over an entry: the timeout stored before stays pending,
\* its handle is lost.
overwritten(ts) == [i \in 1..Len(ts) |-> [ts[i] EXCEPT !.stored = FALSE]]

\* onAcquire: the pool's 'acquire' signal sets a 60 s timeout and stores its
\* handle in holdTimers.
onAcquire(c) ==
    /\ Len(timeouts[c]) < MaxTimeouts
    /\ holdTimers' = [holdTimers EXCEPT ![c] = TRUE]
    /\ timeouts' = [timeouts EXCEPT ![c] = Append(overwritten(@), Timeout(0, TRUE))]

\* onConnection: logger.silly('New MySQL connection established', ...).
onConnectionLogs == 1

\* onAcquire: no logger call outside the timeout's callback.
onAcquireLogs == 0

\* onRelease: logger.silly('MySQL connection released', ...).
onReleaseLogs == 1

\* The event e of a step in which the pool handed out connection c:
\* 'connection' for a new connection, then 'acquire'.
acquireSignal(e, c) ==
    [e EXCEPT !.acquireSignals = 1,
              !.logs = (IF connState[c] = "uncreated" THEN onConnectionLogs ELSE 0)
                       + onAcquireLogs]

\* Every released connection taken for one with an open transaction.
LeakedTransactionAlways(c) == TRUE

\* onRelease, `if (transactionType != null)`.
LeakedTransaction(c) == transactions[c] # None

\* The check left out: the statement is submitted whatever the marker.
NoOpenTransactionUnchecked(c) == FALSE

\* commitTransaction / rollbackTransaction, `if (transactionType == null)`.
NoOpenTransaction(c) == transactions[c] = None

\* The statement queue of c after pool.rollbackTransaction(c) was called by
\* onRelease, given the queue q before the call.
forcedRollback(c, q) ==
    IF NoOpenTransaction(c) THEN q ELSE Append(q, Stmt("rollback", 1))

\* onRelease up to the forced rollback: one error diagnostic and one call of
\* pool.rollbackTransaction when a transaction marker is still set.
onReleaseLeak(op, c) ==
    event' = [Event(op, "signal", c, "none", "none") EXCEPT
                 !.leakErrors = IF LeakedTransaction(c) THEN 1 ELSE 0,
                 !.forcedRollbacks =
                     IF LeakedTransaction(c) /\ ~NoOpenTransaction(c) THEN 1 ELSE 0,
                 !.releaseSignals = IF op = "release" THEN 1 ELSE 0,
                 !.logs = onReleaseLogs,
                 !.follows = IF event.conn = c /\ event.result = "resolved"
                             THEN event.op ELSE "none"]

\* The queue of c after onRelease ran on it.
queueAfterRelease(c, q) == IF LeakedTransaction(c) THEN forcedRollback(c, q) ELSE q

\* The timeout left pending.
timeoutsKeptAfterRelease(c) == timeouts

\* onRelease, the end: clearTimeout of the handle stored in holdTimers.
timeoutsAfterRelease(c) ==
    IF holdTimers[c]
    THEN [timeouts EXCEPT ![c] = SelectSeq(@, LAMBDA t : ~t.stored)]
    ELSE timeouts

\* The timer left in the map.
timersKeptAfterRelease(c) == holdTimers

\* onRelease, the end: clearTimeout and holdTimers.delete.
timersAfterRelease(c) == [holdTimers EXCEPT ![c] = FALSE]

\* ------------------------------------------------- the pool (collaborator)

\* pool.getConnection hands out connection c: a new connection raises
\* 'connection' and then 'acquire', an idle one only 'acquire'.  A pool whose
\* end() was called hands out nothing.
poolGetConnection(c) ==
    /\ poolEnd[PoolOf(c)] = "open"
    /\ connState[c] \in {"uncreated", "idle"}
    /\ connState' = [connState EXCEPT ![c] = "acquired"]
    /\ heldMs' = [heldMs EXCEPT ![c] = 0]
    /\ warnings' = [warnings EXCEPT ![c] = 0]
    /\ IF connState[c] = "uncreated"
       THEN onConnection(c)
       ELSE UNCHANGED <<connectionRoles, connectionPools>>
    /\ onAcquire(c)

\* getReadConnection / getWriteConnection resolve with a connection of the
\* replica / master pool.
getConnection(role) ==
    \E c \in Conns :
        /\ UNCHANGED <<hidden, hasIsRetryable>>
        /\ PoolOf(c) = role
        /\ poolGetConnection(c)
        /\ callerHas' = [callerHas EXCEPT ![c] = TRUE]
        /\ event' = acquireSignal(Event(IF role = "replica" THEN "getReadConnection"
                                         ELSE "getWriteConnection",
                                         "callback", c, "resolved", "none"), c)
        /\ UNCHANGED <<transactions, stmtQueue, opVars, poolOpVars>>

getReadConnection == getConnection("replica")

getWriteConnection == getConnection("master")

\* connection.release() by the holder: the pool takes the connection back and
\* raises 'release', which runs onRelease.  A connection that was destroyed,
\* or closed by its pool, belongs to no pool any more: release() returns
\* without doing anything.
release(c) ==
    /\ UNCHANGED <<hidden, hasIsRetryable>>
    /\ callerHas[c]
    /\ callerHas' = [callerHas EXCEPT ![c] = FALSE]
    /\ \/ /\ connState[c] = "acquired"
          /\ LeakedTransaction(c) => Len(stmtQueue[c]) < MaxQueue
          /\ connState' = [connState EXCEPT ![c] = "idle"]
          /\ onReleaseLeak("release", c)
          /\ stmtQueue' = [stmtQueue EXCEPT ![c] = queueAfterRelease(c, @)]
          /\ holdTimers' = timersAfterRelease(c)
          /\ timeouts' = timeoutsAfterRelease(c)
          /\ UNCHANGED <<heldMs, warnings>>
       \/ /\ connState[c] \in {"destroyed", "closed"}
          /\ event' = Event("release", "call", c, "ignored", "none")
          /\ UNCHANGED <<connState, stmtQueue, holdTimers, clockVars>>
    /\ UNCHANGED <<connectionRoles, connectionPools, transactions, opVars, poolOpVars>>

\* The cleanup of the fatal-error paths giving the connection back to its
\* pool instead of destroying it.
releaseWithoutDestroy(c) ==
    /\ onReleaseLeak("destroy", c)
    /\ holdTimers' = timersAfterRelease(c)
    /\ timeouts' = timeoutsAfterRelease(c)
    /\ UNCHANGED <<heldMs, warnings>>
    /\ connState' = [connState EXCEPT ![c] = "idle"]
    /\ stmtQueue' = [stmtQueue EXCEPT ![c] = <<>>]

\* onRelease(logger)(connection); connection.destroy(): the cleanup of both
\* fatal-error paths.  destroy() drops the statements in flight: their
\* callbacks are never called.
releaseAndDestroy(c) ==
    /\ onReleaseLeak("destroy", c)
    /\ holdTimers' = timersAfterRelease(c)
    /\ timeouts' = timeoutsAfterRelease(c)
    /\ UNCHANGED <<heldMs, warnings>>
    /\ connState' = [connState EXCEPT ![c] = "destroyed"]
    /\ stmtQueue' = [stmtQueue EXCEPT ![c] = <<>>]

\* The connection's 'error' signal, handled by the listener onConnection
\* installs.
connectionError(c, error) ==
    /\ UNCHANGED <<hidden, hasIsRetryable>>
    /\ connState[c] \in {"idle", "acquired"}
    /\ IF error.fatal
       THEN releaseAndDestroy(c)
       ELSE /\ event' = NoEvent
            /\ UNCHANGED <<connState, holdTimers, clockVars, stmtQueue>>
    /\ UNCHANGED <<callerHas, connectionRoles, connectionPools, transactions,
                   opVars, poolOpVars>>

\* --------------------------------------------- transaction API (pool.ts)

\* startTransaction: acquires from the replica pool (read only) or the master
\* pool (read write), sets the transaction marker and submits the statement.
startTransaction(transactionType) ==
    \E c \in Conns :
        /\ UNCHANGED <<hidden, hasIsRetryable>>
        /\ PoolOf(c) = (IF transactionType = ReadOnly THEN "replica" ELSE "master")
        /\ poolGetConnection(c)
        /\ Len(stmtQueue[c]) < MaxQueue
        /\ transactions' = [transactions EXCEPT ![c] = transactionType]
        /\ stmtQueue' = [stmtQueue EXCEPT ![c] = Append(@, Stmt("start", 0))]
        /\ event' = acquireSignal(Event("startTransaction", "call", c,
                                         "submitted", "none"), c)
        /\ UNCHANGED <<callerHas, opVars, poolOpVars>>

\* The callback of the 'start transaction ...' statement.
startCallback(c, error) ==
    /\ UNCHANGED <<hidden, hasIsRetryable>>
    /\ stmtQueue[c] # <<>>
    /\ Head(stmtQueue[c]).kind = "start"
    /\ stmtQueue' = [stmtQueue EXCEPT ![c] = Tail(@)]
    /\ IF error = NoError
       THEN /\ callerHas' = [callerHas EXCEPT ![c] = TRUE]
            /\ event' = Event("startTransaction", "callback", c, "resolved", "none")
       ELSE /\ event' = Event("startTransaction", "callback", c, "rejected", error.code)
            /\ UNCHANGED callerHas
    /\ UNCHANGED <<connState, registry, clockVars, opVars, poolOpVars>>

\* commitTransaction / rollbackTransaction called by the holder of c:
\* without a transaction marker the promise is rejected at once, otherwise
\* the statement is submitted.
endTransaction(op, kind, c) ==
    /\ UNCHANGED <<hidden, hasIsRetryable>>
    /\ connState[c] = "acquired"
    /\ callerHas[c]
    /\ \/ /\ NoOpenTransaction(c)
          /\ event' = Event(op, "call", c, "rejected", "NoOpenTransaction")
          /\ UNCHANGED stmtQueue
       \/ /\ ~NoOpenTransaction(c)
          /\ Len(stmtQueue[c]) < MaxQueue
          /\ stmtQueue' = [stmtQueue EXCEPT ![c] = Append(@, Stmt(kind, 0))]
          /\ event' = Event(op, "call", c, "submitted", "none")
    /\ UNCHANGED <<connState, callerHas, registry, clockVars, opVars, poolOpVars>>

commitTransaction(c) == endTransaction("commitTransaction", "commit", c)

rollbackTransaction(c) == endTransaction("rollbackTransaction", "rollback", c)

\* The callback clearing the marker whatever the statement's outcome.
endCallbackAlwaysClears(op, kind, c, error) ==
    /\ UNCHANGED <<hidden, hasIsRetryable>>
    /\ stmtQueue[c] # <<>>
    /\ Head(stmtQueue[c]).kind = kind
    /\ stmtQueue' = [stmtQueue EXCEPT ![c] = Tail(@)]
    /\ transactions' = [transactions EXCEPT ![c] = None]
    /\ LET who == IF Head(stmtQueue[c]).tag = 1 THEN "onRelease" ELSE op
       IN IF error = NoError
          THEN event' = Event(who, "callback", c, "resolved", "none")
          ELSE event' = Event(who, "callback", c, "rejected", error.code)
    /\ UNCHANGED <<connState, callerHas, connectionRoles, connectionPools,
                   holdTimers, clockVars, opVars, poolOpVars>>

\* The callback of a 'commit' or 'rollback' statement: success clears the
\* marker and resolves, failure rejects with the driver error.
endCallback(op, kind, c, error) ==
    /\ UNCHANGED <<hidden, hasIsRetryable>>
    /\ stmtQueue[c] # <<>>
    /\ Head(stmtQueue[c]).kind = kind
    /\ stmtQueue' = [stmtQueue EXCEPT ![c] = Tail(@)]
    /\ LET who == IF Head(stmtQueue[c]).tag = 1 THEN "onRelease" ELSE op
       IN IF error = NoError
          THEN /\ transactions' = [transactions EXCEPT ![c] = None]
               /\ event' = Event(who, "callback", c, "resolved", "none")
          ELSE /\ event' = Event(who, "callback", c, "rejected", error.code)
               /\ UNCHANGED transactions
    /\ UNCHANGED <<connState, callerHas, connectionRoles, connectionPools,
                   holdTimers, clockVars, opVars, poolOpVars>>

commitCallback(c, error) == endCallback("commitTransaction", "commit", c, error)

rollbackCallback(c, error) == endCallback("rollbackTransaction", "rollback", c, error)

\* ------------------------------ Query.execute and onError (query.ts)

\* `retries == null ? query.maxRetries : retries`
remainingRetries == IF retries = Undefined THEN maxRetries ELSE retries

\* `(query.maxRetries - retries) ** 2 * 500`: not a number when retries was
\* left out.
backoff == IF retries = Undefined THEN NaN ELSE (maxRetries - retries) ^ 2 * 500

\* The retries argument the timer callback hands to query.execute.
retryArgument == retries

\* One call of query.execute(params, connection, logger, retries) by a
\* caller that holds c: the statement is compiled and submitted.
execute(c, M, r) ==
    /\ UNCHANGED <<hidden, hasIsRetryable>>
    /\ opConn = 0
    /\ connState[c] = "acquired"
    /\ callerHas[c]
    /\ Len(stmtQueue[c]) < MaxQueue
    /\ opConn' = c
    /\ maxRetries' = M
    /\ retries' = r
    /\ submissions' = 1
    /\ stmtQueue' = [stmtQueue EXCEPT ![c] = Append(@, Stmt("query", 1))]
    /\ callerPromise' = "pending"
    /\ event' = NoEvent
    /\ UNCHANGED <<connState, callerHas, registry, clockVars, outcomes,
                   delays, retryTimer, callerValue, onErrorPromise, poolOpVars>>

\* new SelectQuery(config): `this.isRetryable = config.isRetryable`, which
\* QueryConfig leaves optional.  given tells whether the config has it.
SelectQueryConstructor(given) ==
    /\ opConn = 0
    /\ queryPhase = "none"
    /\ hasIsRetryable' = given
    /\ event' = NoEvent
    /\ UNCHANGED <<connState, callerHas, registry, stmtQueue, opVars, clockVars,
                   poolOpVars, hidden>>

\* `query.isRetryable(error)`: calling the undefined property throws a
\* TypeError, calling the callback returns its answer.
isRetryableThrows == ~hasIsRetryable

\* The branch of onError an error takes.
onErrorBranch(error) ==
    IF error # NoError /\ ~error.fatal /\ isRetryableThrows
    THEN "TypeError"
    ELSE Classify(error)

\* What the promise of onError is rejected with: the driver error, or the
\* exception thrown in the promise's executor.
onErrorReason(error) ==
    IF onErrorBranch(error) = "TypeError" THEN "TypeError" ELSE error.code

\* onError: a promise of its own is created and rejected in every branch; a
\* fatal error releases and destroys the connection, a retryable one with
\* retries remaining schedules the timer.
onError(c, error) ==
    /\ onErrorPromise' = "rejected"
    /\ IF error.fatal
       THEN /\ releaseAndDestroy(c)
            /\ UNCHANGED <<delays, retryTimer>>
       ELSE /\ stmtQueue' = [stmtQueue EXCEPT ![c] = Tail(@)]
            /\ event' = Event("onError", "callback", c, "rejected", onErrorReason(error))
            /\ UNCHANGED <<connState, holdTimers, clockVars>>
            /\ IF ~isRetryableThrows /\ isRetryable(error) /\ remainingRetries # 0
               THEN /\ delays' = Append(delays, backoff)
                    /\ retryTimer' = TRUE
               ELSE UNCHANGED <<delays, retryTimer>>
    /\ UNCHANGED <<callerPromise, callerValue>>

\* The callback execute hands to connection.query.  The statement of attempt
\* n belongs to the promise of the n-th execute call: the caller holds the
\* promise of the first call only, the promise of a retry is chained to the
\* onError promise, which is rejected by then.  A statement submitted on a
\* destroyed connection fails with a non-fatal driver error.
executeCallback(c, error) ==
    /\ UNCHANGED <<hidden, hasIsRetryable>>
    /\ stmtQueue[c] # <<>>
    /\ Head(stmtQueue[c]).kind = "query"
    /\ connState[c] = "destroyed" => error # NoError /\ ~error.fatal
    /\ outcomes' = Append(outcomes, onErrorBranch(error))
    /\ IF error = NoError
       THEN /\ stmtQueue' = [stmtQueue EXCEPT ![c] = Tail(@)]
            /\ IF Head(stmtQueue[c]).tag = 1
               THEN /\ callerPromise' = "resolved"
                    /\ callerValue' = 1
               ELSE UNCHANGED <<callerPromise, callerValue>>
            /\ event' = NoEvent
            /\ UNCHANGED <<connState, holdTimers, clockVars, delays, retryTimer,
                           onErrorPromise>>
       ELSE onError(c, error)
    /\ UNCHANGED <<callerHas, connectionRoles, connectionPools, transactions,
                   opConn, maxRetries, retries, submissions, poolOpVars>>

\* The retry timer fires: query.execute runs again on the same connection.
retryTimerFires ==
    /\ UNCHANGED <<hidden, hasIsRetryable>>
    /\ retryTimer
    /\ submissions < MaxSubmissions
    /\ Len(stmtQueue[opConn]) < MaxQueue
    /\ retryTimer' = FALSE
    /\ retries' = retryArgument
    /\ submissions' = submissions + 1
    /\ stmtQueue' = [stmtQueue EXCEPT ![opConn] = Append(@, Stmt("query", submissions + 1))]
    /\ event' = NoEvent
    /\ UNCHANGED <<connState, callerHas, registry, clockVars,
                   opConn, maxRetries, outcomes, delays, callerPromise,
                   callerValue, onErrorPromise, poolOpVars>>

\* ------------------------------------------ DatabasePool.query (pool.ts)

\* The classes of query objects: SelectQuery (select-query.ts), and
\* PreparedSelectQuery and WriteQuery, which implement the Query interface
\* and extend no class.
QueryKinds == {"SelectQuery", "PreparedSelectQuery", "WriteQuery"}

\* Every query object taken for a select.
instanceOfAnyQuery(kind) == TRUE

\* `query instanceof SelectQuery`
instanceOfSelectQuery(kind) == kind = "SelectQuery"

\* `? await this.getReadConnection() : await this.getWriteConnection()`
queryPool(kind) == IF instanceOfSelectQuery(kind) THEN "replica" ELSE "master"

\* Errors of pool.getConnection: the connection could not be made.
ConnectErrors == [fatal : {TRUE}, code : {"ECONNREFUSED"}]

\* A call of DatabasePool.query(query) with a descriptor of maxRetries M:
\* the getter of the query's pool is called; its promise settles when the
\* pool answers.
query(kind, M) ==
    /\ UNCHANGED <<hidden, hasIsRetryable>>
    /\ queryPhase = "none"
    /\ opConn = 0
    /\ queryKind' = kind
    /\ queryPhase' = "acquiring"
    /\ maxRetries' = M
    /\ event' = NoEvent
    /\ UNCHANGED <<connState, callerHas, registry, clockVars, stmtQueue, opConn, retries,
                   submissions, outcomes, delays, retryTimer, callerPromise,
                   callerValue, onErrorPromise, healthVars, closeVars>>

\* The pool answers the getter.  With an error the getter rejects and query
\* throws before its try block.  With a connection, query goes on to
\* runQuery, which calls query.execute without a retries argument: the
\* statement is submitted.  The connection stays private to query.
queryConnection(error) ==
    /\ UNCHANGED <<hidden, hasIsRetryable>>
    /\ queryPhase = "acquiring"
    /\ IF error # NoError
       THEN /\ queryPhase' = "rejected"
            /\ event' = Event("query", "acquire", 0, "rejected", error.code)
            /\ UNCHANGED <<connState, callerHas, registry, clockVars, stmtQueue, opVars,
                           queryKind, healthVars, closeVars>>
       ELSE \E c \in Conns :
               /\ PoolOf(c) = queryPool(queryKind)
               /\ poolGetConnection(c)
               /\ Len(stmtQueue[c]) < MaxQueue
               /\ opConn' = c
               /\ retries' = Undefined
               /\ submissions' = 1
               /\ stmtQueue' = [stmtQueue EXCEPT ![c] = Append(@, Stmt("query", 1))]
               /\ callerPromise' = "pending"
               /\ queryPhase' = "running"
               /\ event' = acquireSignal(NoEvent, c)
               /\ UNCHANGED <<callerHas, transactions, maxRetries, outcomes,
                              delays, retryTimer, callerValue, onErrorPromise,
                              queryKind, healthVars, closeVars>>

\* The callback execute handed to connection.query, for the operation
\* started by DatabasePool.query.  When it resolves the promise of the first
\* execute call, query's `await this.runQuery(...)` continues: the connection
\* is released and query returns the result.  An error goes to onError, which
\* leaves that promise pending: neither branch of query's try/catch runs.
queryCallback(c, error) ==
    /\ UNCHANGED <<hidden, hasIsRetryable>>
    /\ queryPhase = "running"
    /\ opConn = c
    /\ stmtQueue[c] # <<>>
    /\ Head(stmtQueue[c]).kind = "query"
    /\ connState[c] = "destroyed" => error # NoError /\ ~error.fatal
    /\ outcomes' = Append(outcomes, onErrorBranch(error))
    /\ IF error = NoError
       THEN IF Head(stmtQueue[c]).tag = 1
            THEN /\ callerPromise' = "resolved"
                 /\ callerValue' = 1
                 /\ queryPhase' = "resolved"
                 /\ connState' = [connState EXCEPT ![c] = "idle"]
                 /\ onReleaseLeak("release", c)
                 /\ stmtQueue' = [stmtQueue EXCEPT ![c] = queueAfterRelease(c, Tail(@))]
                 /\ holdTimers' = timersAfterRelease(c)
                 /\ timeouts' = timeoutsAfterRelease(c)
                 /\ UNCHANGED <<heldMs, warnings>>
                 /\ UNCHANGED <<delays, retryTimer, onErrorPromise>>
            ELSE /\ stmtQueue' = [stmtQueue EXCEPT ![c] = Tail(@)]
                 /\ event' = NoEvent
                 /\ UNCHANGED <<connState, holdTimers, clockVars, delays, retryTimer,
                                callerPromise, callerValue, onErrorPromise,
                                queryPhase>>
       ELSE /\ onError(c, error)
            /\ UNCHANGED queryPhase
    /\ UNCHANGED <<callerHas, connectionRoles, connectionPools, transactions,
                   opConn, maxRetries, retries, submissions, queryKind,
                   healthVars, closeVars>>

\* ------------------------- healthcheck and destroy (mysql.ts, pool.ts)

\* What pool.getConnection answers once pool.end was called.
PoolClosed == [fatal |-> FALSE, code |-> "POOL_CLOSED"]

\* The errors pool.getConnection can answer with.
getConnectionErrors(role) ==
    IF poolEnd[role] = "open" THEN ConnectErrors ELSE {PoolClosed}

\* Errors of pool.end.
CloseErrors == [fatal : {TRUE}, code : {"ECONNRESET", "PROTOCOL_CONNECTION_LOST"}]

\* healthcheck without its catch block: the error of testPool goes on to
\* the caller.
healthcheckRethrows(error) ==
    IF error = NoError
    THEN Probe("resolved", TRUE, "none")
    ELSE Probe("rejected", FALSE, "none")

\* healthcheck of one pool, given what testPool settled with: the try block
\* returns available: true, the catch block available: false with
\* info: error.code.
healthcheckResult(error) ==
    IF error = NoError
    THEN Probe("resolved", TRUE, "none")
    ELSE Probe("resolved", FALSE, error.code)

\* DatabasePool.healthcheck after the healthcheck of one pool has returned:
\* `master: await ...` is followed by the call for the replica, which starts
\* testPool on the replica pool; `replica: await ...` by resolve().
probesAfter(role, result) ==
    IF result.phase = "resolved" /\ role = "master"
    THEN [probe EXCEPT !["master"] = result,
                       !["replica"] = Probe("acquiring", FALSE, "none")]
    ELSE [probe EXCEPT ![role] = result]

healthAfter(role, result) ==
    IF result.phase = "resolved" /\ role = "replica"
    THEN "resolved"
    ELSE healthPromise

\* A call of DatabasePool.healthcheck: the healthcheck of the master pool is
\* called and awaited; testPool asks the master pool for a connection.
healthcheck ==
    /\ UNCHANGED <<hidden, hasIsRetryable>>
    /\ healthPromise \in {"none", "resolved"}
    /\ healthPromise' = "pending"
    /\ probe' = [role \in Roles |->
                    IF role = "master" THEN Probe("acquiring", FALSE, "none")
                    ELSE NoProbe]
    /\ event' = NoEvent
    /\ UNCHANGED <<connState, callerHas, registry, clockVars, stmtQueue, opVars,
                   queryVars, closeVars>>

\* testPool, the callback of pool.getConnection: an error rejects testPool;
\* with a connection the 'select version()' statement is submitted.
testPoolConnection(role, error) ==
    /\ UNCHANGED <<hidden, hasIsRetryable>>
    /\ probe[role].phase = "acquiring"
    /\ IF error # NoError
       THEN /\ error \in getConnectionErrors(role)
            /\ probe' = probesAfter(role, healthcheckResult(error))
            /\ healthPromise' = healthAfter(role, healthcheckResult(error))
            /\ event' = Event("healthcheck", "acquire", 0, "rejected", error.code)
            /\ UNCHANGED <<connState, callerHas, registry, clockVars, stmtQueue, opVars,
                           queryVars, closeVars>>
       ELSE \E c \in Conns :
               /\ PoolOf(c) = role
               /\ poolGetConnection(c)
               /\ Len(stmtQueue[c]) < MaxQueue
               /\ stmtQueue' = [stmtQueue EXCEPT ![c] = Append(@, Stmt("version", 0))]
               /\ probe' = [probe EXCEPT ![role].phase = "querying"]
               /\ event' = acquireSignal(NoEvent, c)
               /\ UNCHANGED <<callerHas, transactions, opVars, queryVars,
                              healthPromise, closeVars>>

\* connection.release() after the test of the error.
testPoolReleasesOnSuccess(error) == error = NoError

\* testPool calls connection.release() before `if (error)`: on every
\* outcome of the statement.
testPoolReleases(error) == TRUE

\* testPool, the callback of the 'select version()' statement: the
\* connection is released (a connection the pool has closed ignores it), then
\* testPool rejects with the error or resolves.
testPoolCallback(c, error) ==
    /\ UNCHANGED <<hidden, hasIsRetryable>>
    /\ stmtQueue[c] # <<>>
    /\ Head(stmtQueue[c]).kind = "version"
    /\ LET result == healthcheckResult(error)
           settled == Event("healthcheck", "callback", c,
                            IF error = NoError THEN "resolved" ELSE "rejected",
                            IF error = NoError THEN "none" ELSE error.code)
       IN /\ probe' = probesAfter(PoolOf(c), result)
          /\ healthPromise' = healthAfter(PoolOf(c), result)
          /\ IF connState[c] = "acquired" /\ testPoolReleases(error)
             THEN /\ connState' = [connState EXCEPT ![c] = "idle"]
                  /\ stmtQueue' = [stmtQueue EXCEPT ![c] = queueAfterRelease(c, Tail(@))]
                  /\ holdTimers' = timersAfterRelease(c)
                  /\ timeouts' = timeoutsAfterRelease(c)
                  /\ UNCHANGED <<heldMs, warnings>>
                  /\ event' = [settled EXCEPT
                        !.leakErrors = IF LeakedTransaction(c) THEN 1 ELSE 0,
                        !.forcedRollbacks = IF LeakedTransaction(c) THEN 1 ELSE 0,
                        !.releaseSignals = 1,
                        !.logs = onReleaseLogs]
             ELSE /\ stmtQueue' = [stmtQueue EXCEPT ![c] = Tail(@)]
                  /\ event' = settled
                  /\ UNCHANGED <<connState, holdTimers, clockVars>>
    /\ UNCHANGED <<callerHas, connectionRoles, connectionPools, transactions,
                   opVars, queryVars, closeVars>>

\* closePool of the master pool only.
closeMasterOnly(role, ends) ==
    IF role = "master" THEN [ends EXCEPT ![role] = "ending"] ELSE ends

\* closePool(pool): pool.end is called.
closePool(role, ends) == [ends EXCEPT ![role] = "ending"]

\* A call of DatabasePool.destroy: closePool of both pools, inside
\* Promise.all.  A pool that is ending takes its connections out: those in
\* flight finish their statements, none is handed out or taken back.
destroy ==
    /\ UNCHANGED <<hidden, hasIsRetryable>>
    /\ destroyPromise = "none"
    /\ poolEnd' = closePool("replica", closePool("master", poolEnd))
    /\ connState' = [c \in Conns |->
                        IF poolEnd'[PoolOf(c)] # "open"
                              /\ connState[c] \in {"idle", "acquired"}
                        THEN "closed" ELSE connState[c]]
    /\ destroyPromise' = "pending"
    /\ event' = NoEvent
    /\ UNCHANGED <<callerHas, registry, clockVars, stmtQueue, opVars, queryVars,
                   healthVars, destroyError>>

\* The callback of pool.end: closePool rejects with the error or resolves;
\* Promise.all rejects with the first rejection and resolves when both have
\* resolved.
closeCallback(role, error) ==
    /\ UNCHANGED <<hidden, hasIsRetryable>>
    /\ poolEnd[role] = "ending"
    /\ poolEnd' = [poolEnd EXCEPT ![role] = IF error = NoError THEN "closed" ELSE "failed"]
    /\ destroyPromise' =
          IF destroyPromise # "pending" THEN destroyPromise
          ELSE IF error # NoError THEN "rejected"
          ELSE IF \A other \in Roles : poolEnd'[other] = "closed" THEN "resolved"
          ELSE "pending"
    /\ destroyError' =
          IF destroyPromise = "pending" /\ error # NoError
          THEN error.code ELSE destroyError
    /\ event' = Event("closePool", "callback", 0,
                      IF error = NoError THEN "resolved" ELSE "rejected",
                      IF error = NoError THEN "none" ELSE error.code)
    /\ UNCHANGED <<connState, callerHas, registry, clockVars, stmtQueue, opVars,
                   queryVars, healthVars>>

\* ------------------------------------------------ time and hold timeouts

\* Time passing: a pending timeout gets older and an acquired connection is
\* held longer.  Ages are followed up to the threshold.
older(ms) == IF ms + TickMs < HeldTooLongMs THEN ms + TickMs ELSE HeldTooLongMs

Tick ==
    /\ UNCHANGED <<hidden, hasIsRetryable>>
    /\ timeouts' = [c \in Conns |->
                       [i \in 1..Len(timeouts[c]) |->
                           [timeouts[c][i] EXCEPT !.age = older(@)]]]
    /\ heldMs' = [c \in Conns |->
                     IF connState[c] = "acquired" THEN older(heldMs[c]) ELSE heldMs[c]]
    /\ <<timeouts', heldMs'>> # <<timeouts, heldMs>>
    /\ event' = NoEvent
    /\ UNCHANGED <<connState, callerHas, registry, stmtQueue, warnings, opVars,
                   poolOpVars>>

\* A timeout set by onAcquire on c is due: onHeldTooLong logs the warning.
\* The handle stays in holdTimers.
onHeldTooLong(c) ==
    /\ UNCHANGED <<hidden, hasIsRetryable>>
    /\ \E i \in 1..Len(timeouts[c]) :
          /\ timeouts[c][i].age >= HeldTooLongMs
          /\ timeouts' = [timeouts EXCEPT ![c] =
                SubSeq(@, 1, i - 1) \o SubSeq(@, i + 1, Len(@))]
    /\ warnings' = [warnings EXCEPT ![c] = IF @ < MaxTimeouts THEN @ + 1 ELSE @]
    /\ event' = Event("onHeldTooLong", "timer", c, "warned", "none")
    /\ UNCHANGED <<connState, callerHas, registry, stmtQueue, heldMs, opVars,
                   poolOpVars>>

\* ------------------------------------ DatabasePool.runQuery (index.ts)

\* The retries of a call whose hidden argument was left out.
HiddenRetries == 3

\* onError of runQuery, `retries == null ? 3 : retries`
runQueryRemainingRetries(r) == IF r = Undefined THEN HiddenRetries ELSE r

\* The backoff computed from an argument that was left out.
runQueryBackoffOfUndefined(r) == NaN

\* retry, `(4 - retries) ** 2 * 500`, of the remaining retries it is handed.
runQueryBackoff(r) == (4 - r) ^ 2 * 500

\* The next call left without retries.
runQueryRetryArgumentZero(r) == 0

\* retry, the hidden argument of the next call: `retries - 1`.
runQueryRetryArgument(r) == r - 1

\* The variables of the DatabasePool of pool.ts and of Query.execute.
currentVars == <<connState, callerHas, registry, stmtQueue, event, opVars,
                 clockVars, poolOpVars, hasIsRetryable>>

\* A caller that holds connection c of a DatabasePool of index.ts calls
\* runQuery(connection, query, params): the statement is compiled and
\* submitted.
runQuery(c) ==
    /\ hidden.promise = "none"
    /\ hidden' = RunQuery(c, Undefined, <<c>>, <<>>, <<>>, TRUE, FALSE, "pending", 0)
    /\ UNCHANGED currentVars

\* The callback runQuery hands to connection.query.  The promise of every
\* retry call is chained to the promise of the call before it with
\* .then(resolve, reject): what settles the last call settles the caller's
\* promise.  A fatal error runs onRelease, which clears the hold timer, and
\* destroys the connection.
runQueryCallback(error) ==
    /\ hidden.inFlight
    /\ LET n == Len(hidden.submittedOn)
           remaining == runQueryRemainingRetries(hidden.retries)
           called == [hidden EXCEPT !.inFlight = FALSE,
                                    !.outcomes = Append(@, Classify(error))]
       IN hidden' =
            IF error = NoError
            THEN [called EXCEPT !.promise = "resolved", !.value = n]
            ELSE IF error.fatal
            THEN [called EXCEPT !.promise = "rejected", !.value = n,
                                !.holdTimer = FALSE, !.destroyed = TRUE]
            ELSE IF isRetryable(error) /\ remaining # 0
            THEN [called EXCEPT !.delays = Append(@, runQueryBackoff(remaining)),
                                !.timer = TRUE]
            ELSE [called EXCEPT !.promise = "rejected", !.value = n]
    /\ UNCHANGED currentVars

\* The timer of retry fires: runQuery is called again with the same
\* connection and one retry less.
runQueryTimerFires ==
    /\ hidden.timer
    /\ hidden' = [hidden EXCEPT
                     !.timer = FALSE,
                     !.retries = runQueryRetryArgument(runQueryRemainingRetries(@)),
                     !.submittedOn = Append(@, hidden.connection),
                     !.inFlight = TRUE]
    /\ UNCHANGED currentVars

\* ------------------------------------------------------------ specification

Outcome == Errors \cup {NoError}

\* The transaction API, the pools and the registry, on every connection.
NextTx ==
    \/ getReadConnection
    \/ getWriteConnection
    \/ \E c \in Conns : release(c)
    \/ \E c \in Conns, error \in Errors : connectionError(c, error)
    \/ \E transactionType \in TransactionType : startTransaction(transactionType)
    \/ \E c \in Conns, error \in Outcome : startCallback(c, error)
    \/ \E c \in Conns : commitTransaction(c)
    \/ \E c \in Conns : rollbackTransaction(c)
    \/ \E c \in Conns, error \in Outcome : commitCallback(c, error)
    \/ \E c \in Conns, error \in Outcome : rollbackCallback(c, error)

SpecTx == Init /\ [][NextTx]_vars

\* One Query.execute operation on a connection of the master pool, with
\* everything else that can happen to that connection while the operation
\* runs.  The side tables are keyed by connection and the operation touches
\* its own connection only, so the other connections are left out.
NextExec ==
    \/ getWriteConnection
    \/ \E c \in Conns : release(c)
    \/ \E c \in Conns, error \in Errors : connectionError(c, error)
    \/ startTransaction(ReadWrite)
    \/ \E c \in Conns, error \in Outcome : startCallback(c, error)
    \/ \E c \in Conns, error \in Outcome : rollbackCallback(c, error)
    \/ \E c \in Conns, M \in 0..MaxM, r \in {Undefined} \cup 0..MaxM : execute(c, M, r)
    \/ \E c \in Conns, error \in Outcome : executeCallback(c, error)
    \/ retryTimerFires

SpecExec == Init /\ [][NextExec]_vars

\* One call of DatabasePool.query, next to other callers that take and
\* release connections of both pools.
NextQuery ==
    \/ \E kind \in QueryKinds, M \in 0..MaxM : query(kind, M)
    \/ \E error \in ConnectErrors \cup {NoError} : queryConnection(error)
    \/ \E c \in Conns, error \in Outcome : queryCallback(c, error)
    \/ retryTimerFires
    \/ \E c \in Conns, error \in Errors : connectionError(c, error)
    \/ getReadConnection
    \/ getWriteConnection
    \/ \E c \in Conns : release(c)

SpecQuery == Init /\ [][NextQuery]_vars

\* DatabasePool.healthcheck and DatabasePool.destroy, next to callers that
\* take and release connections of both pools.
NextAdmin ==
    \/ healthcheck
    \/ \E role \in Roles, error \in ConnectErrors \cup {PoolClosed, NoError} :
          testPoolConnection(role, error)
    \/ \E c \in Conns, error \in Outcome : testPoolCallback(c, error)
    \/ destroy
    \/ \E role \in Roles, error \in CloseErrors \cup {NoError} : closeCallback(role, error)
    \/ getReadConnection
    \/ getWriteConnection
    \/ \E c \in Conns : release(c)
    \/ \E c \in Conns, error \in Errors : connectionError(c, error)

SpecAdmin == Init /\ [][NextAdmin]_vars

\* Checkouts of both pools while time passes.
NextHold ==
    \/ getReadConnection
    \/ getWriteConnection
    \/ \E c \in Conns : release(c)
    \/ \E c \in Conns, error \in Errors : connectionError(c, error)
    \/ Tick
    \/ \E c \in Conns : onHeldTooLong(c)

SpecHold == Init /\ [][NextHold]_vars

\* The two retry paths side by side: one Query.execute operation of
\* query.ts, called without a retries argument, and one runQuery operation
\* of index.ts, each on a connection its caller holds.
NextPaths ==
    \/ getWriteConnection
    \/ \E c \in Conns, M \in 0..MaxComparedRetries : execute(c, M, Undefined)
    \/ \E c \in Conns, error \in Outcome : executeCallback(c, error)
    \/ retryTimerFires
    \/ \E c \in Conns : runQuery(c)
    \/ \E error \in Outcome : runQueryCallback(error)
    \/ runQueryTimerFires

SpecPaths == Init /\ [][NextPaths]_vars

\* One Query.execute operation of a query whose config may have left the
\* isRetryable callback out.
NextOptional ==
    \/ \E given \in BOOLEAN : SelectQueryConstructor(given)
    \/ getWriteConnection
    \/ \E c \in Conns : release(c)
    \/ \E c \in Conns, M \in 0..MaxM : execute(c, M, Undefined)
    \/ \E c \in Conns, error \in Outcome : executeCallback(c, error)
    \/ retryTimerFires

SpecOptional == Init /\ [][NextOptional]_vars

\* Everything together.
Next ==
    NextTx \/ NextExec \/ NextQuery \/ NextAdmin \/ NextHold \/ NextPaths
        \/ NextOptional

Spec == Init /\ [][Next]_vars

\* ------------------------------------------------------------------ claims

\* Every attempt so far of an operation started without a retries argument
\* failed with a non-fatal error that isRetryable accepts.
AlwaysRetryable ==
    /\ opConn # 0
    /\ retries = Undefined
    /\ \A i \in 1..Len(outcomes) : outcomes[i] = "retryable"

\* The operation has a statement in flight.
InFlight == opConn # 0 /\ \E i \in 1..Len(stmtQueue[opConn]) : stmtQueue[opConn][i].kind = "query"

\* C1: with maxRetries = M and only retryable failures, at most M + 1
\* statements are submitted, and after the failure of the (M+1)-th one no
\* retry is scheduled and the operation is rejected (here: on either
\* promise; which promise is rejected is the subject of C2).
C1_ExactlyMRetries ==
    AlwaysRetryable =>
        /\ submissions <= maxRetries + 1
        /\ Len(outcomes) = maxRetries + 1 =>
              ~retryTimer /\ "rejected" \in {callerPromise, onErrorPromise}

\* C2: once the callback of every submitted statement has been called and
\* nothing of the operation is pending (no statement in flight, no retry
\* timer), the promise the caller holds is resolved or rejected.
C2_CallerPromiseSettles ==
    (opConn # 0 /\ Len(outcomes) = submissions /\ ~InFlight /\ ~retryTimer)
        => callerPromise \in {"resolved", "rejected"}

\* C3: once an attempt has failed with a fatal error, the connection is
\* destroyed, the operation is rejected, that attempt was the last statement
\* submitted and no retry timer is pending.
C3_FatalDestroysAndRejects ==
    (\E i \in 1..Len(outcomes) : outcomes[i] = "fatal") =>
        /\ connState[opConn] = "destroyed"
        /\ callerPromise = "rejected"
        /\ Last(outcomes) = "fatal"
        /\ submissions = Len(outcomes)
        /\ ~retryTimer

\* C4: maxRetries = 2, two retryable failures, then a success: the caller's
\* promise is resolved with the result of the third attempt and three
\* statements were submitted.
C4_ThirdAttemptResolves ==
    (maxRetries = 2 /\ retries = Undefined
        /\ outcomes = <<"retryable", "retryable", "ok">>) =>
        /\ callerPromise = "resolved"
        /\ callerValue = 3
        /\ submissions = 3

\* C5: under repeated retryable errors the delay of the k-th retry is
\* k*k*500 ms: a number, not negative, and larger than the one before.
C5_BackoffSquares ==
    AlwaysRetryable =>
        \A k \in 1..Len(delays) :
            /\ delays[k] # NaN
            /\ delays[k] >= 0
            /\ delays[k] = k * k * 500
            /\ k > 1 => delays[k] > delays[k - 1]

\* C6: the step in which an attempt fails with a terminal error rejects the
\* operation, schedules no retry, submits nothing, and leaves the connection,
\* its hold timer and its transaction marker as they were.
C6_TerminalRejectsOnly ==
    [][(Len(outcomes') = Len(outcomes) + 1 /\ Last(outcomes') = "terminal") =>
          /\ callerPromise' = "rejected"
          /\ ~retryTimer'
          /\ submissions' = submissions
          /\ stmtQueue'[opConn] = Tail(stmtQueue[opConn])
          /\ connState' = connState
          /\ holdTimers' = holdTimers
          /\ transactions' = transactions]_vars

\* C7: a call of commitTransaction or rollbackTransaction on a connection
\* without a transaction marker rejects with the no-open-transaction error,
\* submits no statement and changes no registry entry.
C7_MisuseRejects ==
    [][\A c \in Conns :
          (/\ event'.at = "call"
           /\ event'.conn = c
           /\ event'.op \in {"commitTransaction", "rollbackTransaction"}
           /\ transactions[c] = None) =>
              /\ event'.result = "rejected"
              /\ event'.error = "NoOpenTransaction"
              /\ stmtQueue' = stmtQueue
              /\ registry' = registry
              /\ connState' = connState]_vars

\* C7 witness: rollbackTransaction was just rejected for want of a transaction
\* on an acquired connection.
C7_Witness ==
    /\ event.op = "rollbackTransaction"
    /\ event.at = "call"
    /\ event.error = "NoOpenTransaction"
    /\ connState[event.conn] = "acquired"
    /\ transactions[event.conn] = None

\* A rollback submitted by onRelease is still in flight on c.
ForcedRollbackInFlight(c) ==
    \E i \in 1..Len(stmtQueue[c]) : stmtQueue[c][i] = Stmt("rollback", 1)

C9_NoOpenTransactionInPool ==
    \A c \in Conns : connState[c] = "idle" => transactions[c] = None

TimerGoneRolesStay ==
    \A c \in Conns :
        connState[c] = "idle" =>
            /\ ~holdTimers[c]
            /\ connectionRoles[c] = PoolOf(c)
            /\ connectionPools[c] = DbPool

\* The step that puts a connection back in its pool leaves its transaction
\* marker as it was.
ReleaseKeepsMarker ==
    \A c \in Conns :
        (connState[c] = "acquired" /\ connState'[c] = "idle") =>
            transactions'[c] = transactions[c]

C11_FailedStartLeavesNoMarker ==
    (event.op = "startTransaction" /\ event.at = "callback"
        /\ event.result = "rejected") =>
        /\ event.error \in {e.code : e \in Errors}
        /\ transactions[event.conn] = None

\* C12: on a connection with a transaction marker, the call of
\* commitTransaction or rollbackTransaction submits exactly one statement of
\* its kind and nothing else; the callback of that statement submits nothing,
\* and either clears the marker and resolves, or rejects with the driver
\* error and leaves every marker as it was.
C12_EndTransactionFrame ==
    [][\A c \in Conns :
          /\ (/\ event'.conn = c
              /\ event'.at = "call"
              /\ event'.op \in {"commitTransaction", "rollbackTransaction"}
              /\ transactions[c] # None) =>
                 /\ event'.result = "submitted"
                 /\ stmtQueue' = [stmtQueue EXCEPT ![c] =
                       Append(@, Stmt(IF event'.op = "commitTransaction"
                                      THEN "commit" ELSE "rollback", 0))]
                 /\ transactions' = transactions
          /\ (/\ event'.conn = c
              /\ event'.at = "callback"
              /\ event'.op \in {"commitTransaction", "rollbackTransaction"}) =>
                 /\ stmtQueue' = [stmtQueue EXCEPT ![c] = Tail(@)]
                 /\ event'.result \in {"resolved", "rejected"}
                 /\ event'.result = "resolved" =>
                       transactions' = [transactions EXCEPT ![c] = None]
                 /\ event'.result = "rejected" =>
                       /\ event'.error \in {e.code : e \in Errors}
                       /\ transactions' = transactions]_vars

\* C12 witness: a commit statement just failed on a connection that still
\* has its transaction marker.
C12_Witness ==
    /\ event.op = "commitTransaction"
    /\ event.at = "callback"
    /\ event.result = "rejected"
    /\ connState[event.conn] = "acquired"
    /\ transactions[event.conn] = ReadWrite

\* C13: a query that DatabasePool.query runs is executed on a connection of
\* the replica pool when its object is select-like (SelectQuery or
\* PreparedSelectQuery), and of the master pool when it is a WriteQuery.
C13_RoutesByKind ==
    (queryPhase = "running" /\ opConn # 0) =>
        PoolOf(opConn) =
            (IF queryKind \in {"SelectQuery", "PreparedSelectQuery"}
             THEN "replica" ELSE "master")

\* Every statement DatabasePool.query's operation submitted has completed
\* and no retry is scheduled: the query has had its final outcome.
QueryFinal ==
    /\ queryKind # "none"
    /\ opConn # 0
    /\ Len(outcomes) = submissions
    /\ ~InFlight
    /\ ~retryTimer

\* C14: once a query of DatabasePool.query has had its final outcome, the
\* call has given its connection back (it has returned or thrown after
\* connection.release()) or the connection is destroyed: the call is not
\* left waiting with the connection checked out.
C14_GivenBackAfterFinalOutcome ==
    QueryFinal => (queryPhase # "running" \/ connState[opConn] = "destroyed")

\* The step classifies a fatal error on c: an attempt of the query operation
\* on c fails fatally (onError), or the connection's 'error' listener gets a
\* fatal error; both report the cleanup as a "destroy" event.
FatalClassified(c) ==
    \/ /\ opConn = c
       /\ Len(outcomes') = Len(outcomes) + 1
       /\ Last(outcomes') = "fatal"
    \/ /\ event'.op = "destroy"
       /\ event'.conn = c

\* C15: the step that classifies a fatal error on a connection destroys it,
\* and a destroyed connection stays destroyed: no release gives it back to
\* the pool (a release call on it changes nothing) and no acquisition hands
\* it out.
C15_FatalNeverBackInPool ==
    [][\A c \in Conns :
          /\ FatalClassified(c) => connState'[c] = "destroyed"
          /\ connState[c] = "destroyed" =>
                /\ connState'[c] = "destroyed"
                /\ holdTimers'[c] = holdTimers[c]
                /\ (callerHas'[c] => callerHas[c])]_vars

\* C15 witness: the holder of a connection destroyed on a fatal error has
\* just called release() on it, and the connection is still destroyed.
C15_Witness ==
    /\ event.op = "release"
    /\ event.result = "ignored"
    /\ connState[event.conn] = "destroyed"
    /\ ~callerHas[event.conn]

\* C16: the healthcheck of a pool never rejects; the step in which testPool
\* settles makes it return available = true when the acquisition and the
\* statement succeeded, and available = false with the error's code as info
\* when the acquisition or the statement failed.
C16_HealthcheckNeverRejects ==
    /\ [](\A role \in Roles : probe[role].phase # "rejected")
    /\ [][\A role \in Roles :
            (probe[role].phase \in {"acquiring", "querying"}
                /\ probe'[role].phase \notin {"acquiring", "querying"}) =>
               /\ event'.op = "healthcheck"
               /\ probe'[role].phase = "resolved"
               /\ probe'[role].available =
                     (probe[role].phase = "querying" /\ event'.result = "resolved")
               /\ probe'[role].info = event'.error
               /\ ~probe'[role].available => event'.error # "none"]_vars

\* C16 witness: the healthcheck of the replica pool has returned
\* available = false with the code of the error its statement failed with.
C16_Witness ==
    /\ event.op = "healthcheck"
    /\ event.at = "callback"
    /\ event.result = "rejected"
    /\ PoolOf(event.conn) = "replica"
    /\ probe["replica"] = Probe("resolved", FALSE, event.error)
    /\ healthPromise = "resolved"

\* C17: while DatabasePool.healthcheck is in progress the probe of the
\* replica pool has been started (it does not wait for the probe of the
\* master pool).
C17_ReplicaProbeStarted ==
    healthPromise = "pending" => probe["replica"].phase # "unstarted"

\* DatabasePool.destroy has called end on both pools; its promise is resolved
\* only when both pools have closed, and rejected when a close has failed.
BothPoolsEnded ==
    /\ destroyPromise # "none" => \A role \in Roles : poolEnd[role] # "open"
    /\ destroyPromise = "resolved" => \A role \in Roles : poolEnd[role] = "closed"
    /\ (\E role \in Roles : poolEnd[role] = "failed") =>
          /\ destroyPromise = "rejected"
          /\ destroyError \in {e.code : e \in CloseErrors}

\* The step in which the first close fails rejects the promise of destroy
\* with that failure, and leaves the close of the other pool as it was:
\* attempted.
FirstFailureRejects ==
    \A role \in Roles :
        (poolEnd[role] = "ending" /\ poolEnd'[role] = "failed") =>
            /\ destroyPromise = "pending" =>
                  destroyPromise' = "rejected" /\ destroyError' = event'.error
            /\ destroyPromise # "pending" =>
                  destroyPromise' = destroyPromise /\ destroyError' = destroyError
            /\ \A other \in Roles \ {role} :
                  poolEnd'[other] = poolEnd[other] /\ poolEnd[other] # "open"

\* C18: destroy calls end on both pools in every case; it resolves only
\* after both pools have closed, and if a close fails it is rejected with
\* that failure while the close of the other pool has been attempted.
C18_DestroyEndsBothPools == []BothPoolsEnded /\ [][FirstFailureRejects]_vars

\* C18 witness: the close of the master pool failed and rejected destroy,
\* and the replica pool, whose close was attempted all the same, has closed.
C18_Witness ==
    /\ poolEnd["master"] = "failed"
    /\ poolEnd["replica"] = "closed"
    /\ destroyPromise = "rejected"
    /\ destroyError = "ECONNRESET"

\* At most one timeout is pending per connection, at most one warning was
\* logged for its current checkout, and a connection that was released or
\* destroyed has no pending timeout.
OneTimerPerCheckout ==
    \A c \in Conns :
        /\ Len(timeouts[c]) <= 1
        /\ warnings[c] <= 1
        /\ connState[c] \in {"uncreated", "idle", "destroyed"} => timeouts[c] = <<>>

\* The step in which the warning is logged for c finds c checked out and
\* held for the threshold, and leaves no timeout pending for it.
WarnsOnlyWhenHeldTooLong ==
    \A c \in Conns :
        (event'.op = "onHeldTooLong" /\ event'.conn = c) =>
            /\ connState[c] = "acquired"
            /\ heldMs[c] >= HeldTooLongMs
            /\ timeouts'[c] = <<>>

\* C19: per checkout the held-too-long warning is logged at most once, and
\* only when the connection has been held for 60 s without being released or
\* destroyed; a release or a destroy on a fatal error cancels the timeout,
\* and no connection has more than one pending timeout.
C19_HoldTimerOncePerCheckout ==
    []OneTimerPerCheckout /\ [][WarnsOnlyWhenHeldTooLong]_vars

\* C19 witness: the warning has just been logged for a connection held for
\* 60 s, and it is the only one of this checkout.
C19_Witness ==
    /\ event.op = "onHeldTooLong"
    /\ connState[event.conn] = "acquired"
    /\ heldMs[event.conn] = HeldTooLongMs
    /\ warnings[event.conn] = 1
    /\ timeouts[event.conn] = <<>>

\* A connection of the pool `role` can be handed out.
PoolHasFree(role) ==
    \E c \in Conns :
        /\ PoolOf(c) = role
        /\ connState[c] \in {"uncreated", "idle"}
        /\ Len(stmtQueue[c]) < MaxQueue

\* The connections of the pool `role` are all checked out.
PoolExhausted(role) ==
    \A c \in Conns : PoolOf(c) = role => connState[c] = "acquired"

\* Whatever the state of the other pool: a query waiting for a connection of
\* a pool that has one gets it, a query with a statement in flight gets its
\* callback, and while a query is queued on an exhausted pool the getter of
\* the other pool answers.
NeverBlockedByOtherPool ==
    /\ (queryPhase = "acquiring" /\ queryKind = "SelectQuery" /\ PoolHasFree("replica"))
          => ENABLED queryConnection(NoError)
    /\ (queryPhase = "acquiring" /\ queryKind = "WriteQuery" /\ PoolHasFree("master"))
          => ENABLED queryConnection(NoError)
    /\ (queryPhase = "running" /\ InFlight)
          => ENABLED (\E error \in Outcome : queryCallback(opConn, error))
    /\ (queryPhase = "acquiring" /\ queryKind = "WriteQuery"
           /\ PoolExhausted("master") /\ PoolHasFree("replica"))
          => ENABLED getReadConnection
    /\ (queryPhase = "acquiring" /\ queryKind = "SelectQuery"
           /\ PoolExhausted("replica") /\ PoolHasFree("master"))
          => ENABLED getWriteConnection

\* A step of a write query leaves the connections of the replica pool alone,
\* and a step of a read query those of the master pool.
TouchesOwnPoolOnly ==
    \A c \in Conns :
        (/\ queryPhase \in {"acquiring", "running"}
         /\ <<queryPhase, outcomes, submissions>>' # <<queryPhase, outcomes, submissions>>
         /\ PoolOf(c) # (IF queryKind = "SelectQuery" THEN "replica" ELSE "master")
         /\ queryKind \in {"SelectQuery", "WriteQuery"}) =>
            /\ connState'[c] = connState[c]
            /\ stmtQueue'[c] = stmtQueue[c]
            /\ opConn' # c

StartInFlight(c) ==
    \E i \in 1..Len(stmtQueue[c]) : stmtQueue[c][i].kind = "start"

\* C21: a connection has a transaction marker only between a successful
\* 'start transaction' statement and the next successful commit or rollback:
\* the marker is None while the start statement is in flight, and None right
\* after a failed start and after a successful commit or rollback.
C21_MarkerOnlyWhileOpen ==
    \A c \in Conns :
        /\ StartInFlight(c) => transactions[c] = None
        /\ (event.conn = c /\ event.at = "callback"
               /\ event.op \in {"commitTransaction", "rollbackTransaction"}
               /\ event.result = "resolved") => transactions[c] = None
        /\ (event.conn = c /\ event.at = "callback"
               /\ event.op = "startTransaction"
               /\ event.result = "rejected") => transactions[c] = None

\* C22: a connection whose transaction marker is ReadWrite has role master
\* and one whose marker is ReadOnly role replica; the step in which
\* startTransaction takes a connection takes it for the type asked for; a
\* connection handed out by getReadConnection has role replica and one
\* handed out by getWriteConnection role master.
C22_TransactionsBoundToRole ==
    \A c \in Conns :
        /\ transactions[c] = ReadWrite => connectionRoles[c] = "master"
        /\ transactions[c] = ReadOnly => connectionRoles[c] = "replica"
        /\ (event.conn = c /\ event.op = "startTransaction" /\ event.at = "call") =>
              /\ transactions[c] \in TransactionType
              /\ connState[c] = "acquired"
        /\ (event.conn = c /\ event.op = "getReadConnection") =>
              connectionRoles[c] = "replica" /\ connState[c] = "acquired"
        /\ (event.conn = c /\ event.op = "getWriteConnection") =>
              connectionRoles[c] = "master" /\ connState[c] = "acquired"

\* C22 witness: startTransaction has just taken a connection of the master
\* pool for a read-write transaction while the caller holds one handed out
\* by getReadConnection.
C22_Witness ==
    /\ event.op = "startTransaction"
    /\ event.at = "call"
    /\ transactions[event.conn] = ReadWrite
    /\ connectionRoles[event.conn] = "master"
    /\ \E c \in Conns : callerHas[c] /\ connectionRoles[c] = "replica"

\* The statements of the Query.execute operation in flight on c.
QueryStatements(c) ==
    {i \in 1..Len(stmtQueue[c]) : stmtQueue[c][i].kind = "query"}

\* C23: the step that submits a retry submits it on the connection of the
\* first attempt, leaves exactly one statement of the operation in flight,
\* and hands on one unit less than the retries that remained, never less
\* than 0.
C23_RetriesSequentialAndCounted ==
    [][(submissions >= 1 /\ submissions' = submissions + 1) =>
          /\ opConn' = opConn
          /\ \A c \in Conns :
                Cardinality(QueryStatements(c)') = (IF c = opConn THEN 1 ELSE 0)
          /\ QueryStatements(opConn) = {}
          /\ retries' = remainingRetries - 1
          /\ retries' >= 0]_vars

\* C24: the step that submits a retry finds the connection of the operation
\* still checked out: it was neither released to its pool nor destroyed
\* while the backoff timer was pending.
C24_RetryOnHeldConnectionOnly ==
    [][(submissions >= 1 /\ submissions' = submissions + 1) =>
          connState[opConn] = "acquired"]_vars

\* C25: a connection destroyed because of a fatal error has no hold timer
\* and no role, pool or transaction marker in the registry any more, also
\* when it had an open transaction when it was destroyed.
C25_DestroyedLeavesNoTrace ==
    \A c \in Conns :
        connState[c] = "destroyed" =>
            /\ ~holdTimers[c]
            /\ connectionRoles[c] = Absent
            /\ connectionPools[c] = Absent
            /\ transactions[c] = None

\* C26: a step in which a pool handed out a connection ('acquire') or took
\* one back ('release') wrote one log entry carrying the connection's
\* threadId and role for each of these signals.
C26_EverySignalLogged ==
    /\ event.acquireSignals = 1 => event.logs = 1
    /\ event.releaseSignals = 1 => event.logs = 1


IsPrefix(a, b) == Len(a) <= Len(b) /\ \A i \in 1..Len(a) : a[i] = b[i]

\* A sequence of attempts that starts with a retryable failure and in which
\* only the last attempt may have succeeded.
RetryableRun(o) ==
    /\ Len(o) >= 1
    /\ o[1] = "retryable"
    /\ \A i \in 1..Len(o) : o[i] = "retryable" \/ (i = Len(o) /\ o[i] = "ok")

\* The Query.execute operation has nothing in flight and no timer pending.
DescriptorDone ==
    /\ opConn # 0
    /\ ~retryTimer
    /\ QueryStatements(opConn) = {}

\* The runQuery operation has settled its caller's promise.
RunQueryDone == hidden.promise \in {"resolved", "rejected"}

\* Both operations were fed the same sequence of retryable failures, each
\* as far as it went.
SameFailures ==
    /\ RetryableRun(outcomes)
    /\ RetryableRun(hidden.outcomes)
    /\ IsPrefix(outcomes, hidden.outcomes) \/ IsPrefix(hidden.outcomes, outcomes)

\* The same number of attempts and the same backoff delays.
PathsAgree ==
    /\ submissions = Len(hidden.submittedOn)
    /\ delays = hidden.delays

\* C27: run to the end on the same sequence of retryable failures, the
\* descriptor-driven path of query.ts and the hidden-parameter path of
\* index.ts make the same number of attempts with the same backoff delays
\* for no maxRetries other than 3; for every smaller maxRetries they differ.
C27_PathsAgreeOnlyForThree ==
    (DescriptorDone /\ RunQueryDone /\ SameFailures /\ PathsAgree) =>
        maxRetries = HiddenRetries

\* C27 witness: a descriptor of maxRetries 1 and runQuery, both failed once
\* and then succeeded: two attempts each, and different backoff delays.
C27_Witness ==
    /\ DescriptorDone
    /\ RunQueryDone
    /\ SameFailures
    /\ maxRetries = 1
    /\ outcomes = <<"retryable", "ok">>
    /\ hidden.outcomes = outcomes
    /\ submissions = Len(hidden.submittedOn)
    /\ delays # hidden.delays

AllRetryable(o) == \A i \in 1..Len(o) : o[i] = "retryable"

\* The backoff delays of runQuery's retries, in order.
HiddenBackoffs == <<500, 2000, 4500>>

\* C28: while every attempt of a runQuery operation fails with a non-fatal
\* retryable error, its statements are submitted on the same connection, at
\* most 4 of them, after backoffs of 500, 2000 and 4500 ms, and the caller's
\* promise stays pending until the 4th attempt failed and is then rejected
\* with the error of that attempt; a retry that succeeds resolves the
\* caller's promise with its result.
C28_RunQueryFourAttempts ==
    LET o == hidden.outcomes
        n == Len(hidden.submittedOn)
    IN /\ (hidden.promise # "none" /\ AllRetryable(o)) =>
            /\ n <= HiddenRetries + 1
            /\ \A i \in 1..n : hidden.submittedOn[i] = hidden.connection
            /\ hidden.delays = SubSeq(HiddenBackoffs, 1, Len(hidden.delays))
            /\ Len(hidden.delays) = (IF Len(o) <= HiddenRetries THEN Len(o) ELSE HiddenRetries)
            /\ hidden.promise =
                  (IF Len(o) = HiddenRetries + 1 THEN "rejected" ELSE "pending")
            /\ Len(o) = HiddenRetries + 1 =>
                  /\ n = HiddenRetries + 1
                  /\ hidden.value = HiddenRetries + 1
                  /\ ~hidden.timer
                  /\ ~hidden.inFlight
       /\ (Len(o) >= 2 /\ Last(o) = "ok"
             /\ AllRetryable(SubSeq(o, 1, Len(o) - 1))) =>
            /\ hidden.promise = "resolved"
            /\ hidden.value = Len(o)
            /\ n = Len(o)

\* C28 witness: four attempts failed with retryable errors and the caller's
\* promise is rejected with the error of the fourth.
C28_Witness ==
    /\ hidden.outcomes = <<"retryable", "retryable", "retryable", "retryable">>
    /\ hidden.delays = HiddenBackoffs
    /\ hidden.promise = "rejected"
    /\ hidden.value = 4


\* The 'select version()' statements of healthcheck probes in flight on c.
ProbeStatements(c) == {i \in 1..Len(stmtQueue[c]) : stmtQueue[c][i].kind = "version"}

\* A connection that is checked out and held by no caller is the connection
\* of a probe whose statement is still in flight, one statement per probe.
ProbeHoldsOnlyWhileQuerying ==
    \A c \in Conns :
        /\ Cardinality(ProbeStatements(c)) <= 1
        /\ (connState[c] = "acquired" /\ ~callerHas[c]) => ProbeStatements(c) # {}

\* The callback of a probe's statement, whether it reports an error or not,
\* releases the probe's connection to its pool with one 'release' signal and
\* leaves no statement of the probe behind; a failed acquisition releases
\* nothing.
ProbeReleasesOnce ==
    /\ (event'.op = "healthcheck" /\ event'.at = "callback"
          /\ connState[event'.conn] = "acquired") =>
            /\ connState'[event'.conn] = "idle"
            /\ event'.releaseSignals = 1
            /\ \A i \in 1..Len(stmtQueue'[event'.conn]) :
                   stmtQueue'[event'.conn][i].kind # "version"
    /\ (event'.op = "healthcheck" /\ event'.at = "acquire") =>
            /\ event'.releaseSignals = 0
            /\ connState' = connState

\* C29: a healthcheck probe never leaks a connection: a connection testPool
\* acquired is released to its pool exactly once, by the callback of the
\* 'select version()' statement whether it succeeded or failed, and a
\* failed acquisition releases nothing.
C29_ProbeNeverLeaks == []ProbeHoldsOnlyWhileQuerying /\ [][ProbeReleasesOnce]_vars

\* C29 witness: the statement of a probe failed and the callback released
\* the probe's connection.
C29_Witness ==
    /\ event.op = "healthcheck"
    /\ event.at = "callback"
    /\ event.result = "rejected"
    /\ event.releaseSignals = 1
    /\ connState[event.conn] = "idle"

\* The step is the callback of a commit or rollback statement that reports
\* success to the caller of commitTransaction / rollbackTransaction on c.
EndedSuccessfully(c) ==
    /\ event'.conn = c
    /\ event'.op \in {"commitTransaction", "rollbackTransaction"}
    /\ event'.at = "callback"
    /\ event'.result = "resolved"

\* C30: a successful commit or rollback leaves the connection without a
\* transaction marker, the marker stays absent for as long as the connection
\* is checked out, and the release of a connection without a marker submits
\* no rollback statement and logs no open-transaction error.
C30_CleanReleaseAfterCommit ==
    [][\A c \in Conns :
          /\ (EndedSuccessfully(c) /\ connState'[c] = "acquired") =>
                transactions'[c] = None
          /\ (connState[c] = "acquired" /\ transactions[c] = None
                /\ connState'[c] = "acquired") => transactions'[c] = None
          /\ (connState[c] = "acquired" /\ transactions[c] = None
                /\ callerHas[c] /\ ~callerHas'[c]) =>
                /\ event'.op = "release"
                /\ event'.conn = c
                /\ event'.leakErrors = 0
                /\ event'.forcedRollbacks = 0
                /\ stmtQueue'[c] = stmtQueue[c]
                /\ connState'[c] = "idle"]_vars

\* C30 witness: the step after commitTransaction resolved released the
\* connection: no diagnostic, no rollback statement, nothing in flight.
C30_Witness ==
    /\ event.op = "release"
    /\ event.follows = "commitTransaction"
    /\ event.releaseSignals = 1
    /\ event.leakErrors = 0
    /\ event.forcedRollbacks = 0
    /\ connState[event.conn] = "idle"
    /\ stmtQueue[event.conn] = <<>>


\* The codes of the driver's errors.
DriverCodes == {error.code : error \in Errors}

\* C31: when a query constructed without an isRetryable callback fails with
\* a non-fatal error, the operation is rejected with the driver's error, no
\* retry is scheduled, and the rejection carries no other error.
C31_MissingCallbackIsTerminal ==
    (~hasIsRetryable /\ opConn # 0 /\ event.op = "onError") =>
        /\ event.error \in DriverCodes
        /\ callerPromise = "rejected"
        /\ ~retryTimer
        /\ delays = <<>>

=============================================================================
